---- MODULE Spec2Model ----
(***************************************************************************)
(* A model of package hasher of jaredcantwell/hash-server: the two         *)
(* AsyncHasher implementations, AsyncHasherMutex (hasher_mutex.go) and     *)
(* AsyncHasherChannel (hasher.go), with their callers and the background   *)
(* goroutines that Compute launches.                                       *)
(*                                                                         *)
(* One hasher is modelled; which implementation it is, is chosen in Init   *)
(* (variant).  Client goroutines call Compute, GetAndRemoveHash, Stats and *)
(* Drain.  Every step is one synchronisation operation of the code (an     *)
(* atomic add, a channel send or receive, a WaitGroup operation) together  *)
(* with the goroutine-local statements around it.  A critical section of   *)
(* AsyncHasherMutex, from Lock to Unlock, is one step: hashMutex guards    *)
(* every access to hashes and statsMutex every access to stats, so no      *)
(* other goroutine sees the state inside a critical section.               *)
(***************************************************************************)
EXTENDS Integers, Sequences, FiniteSets, TLC

VARIABLES variant, asyncId, wg, hashes, stats,
          hashPutChan, hashRequestChan, statUpdateChan, loop,
          units, clients, ret, counted, countedTime, inserted, retrieved,
          drained,
          listener, runPc, shutdownChan, reqs, resp, handled,
          input, output

vars == <<variant, asyncId, wg, hashes, stats,
          hashPutChan, hashRequestChan, statUpdateChan, loop,
          units, clients, ret, counted, countedTime, inserted, retrieved,
          drained,
          listener, runPc, shutdownChan, reqs, resp, handled,
          input, output>>

(***************************************************************************)
(* History variables (not state of the program): counted, the units whose  *)
(* duration has been applied to stats, and countedTime, the sum of those   *)
(* durations; inserted and retrieved, how often each id has been put into  *)
(* the map and returned by GetAndRemoveHash; drained, whether a Drain call *)
(* has returned with no Compute call in progress then or made since.       *)
(***************************************************************************)

(***************************************************************************)
(* Bounds of the model.                                                    *)
(***************************************************************************)
\* The number of Compute calls made over a run.
MaxJobs == 2

\* The capacity of the buffered channels hashPutChan, hashRequestChan and
\* statUpdateChan.  The source makes them with capacity 100; the model scales
\* the capacity down so that a full buffer is reachable with MaxJobs units.
ChanCap == 1

\* The goroutines that call the hasher.
Clients == {"c1", "c2"}

\* The passwords handed to Compute.
Passwords == {"angryMonkey", "letMeIn"}

\* The values time.Since(start) takes, in nanoseconds (time.Duration).
Durations == {200000, 500000}

\* The ids GetAndRemoveHash is called with: every id Compute can hand out,
\* before and after Compute has handed it out.
GetIds == 1 .. MaxJobs

\* The ids the history variables are kept for.
Ids == 0 .. MaxJobs

(***************************************************************************)
(* hasher.Compute: sha512 of the input, base64 (StdEncoding) of the sum.   *)
(* A []byte is a sequence of numbers in 0 .. 255.  The sum is tabulated    *)
(* for the inputs used; the encoding is computed.                          *)
(***************************************************************************)

\* sha512.New(), Write([]byte(in)), Sum(nil): the 64 bytes of the digest.
Sum512(in) ==
    CASE in = "angryMonkey" ->
             <<100, 65, 225, 88, 30, 185, 129, 73, 115, 117, 92, 45,
               13, 0, 43, 19, 44, 126, 41, 82, 243, 167, 246, 147,
               105, 22, 143, 148, 28, 216, 68, 129, 99, 234, 248, 197,
               118, 161, 27, 209, 14, 65, 243, 53, 74, 9, 157, 47,
               41, 182, 79, 102, 73, 73, 207, 65, 93, 238, 203, 182,
               3, 232, 31, 237>>
      [] in = "letMeIn" ->
             <<71, 137, 165, 161, 4, 240, 30, 144, 3, 128, 12, 79,
               163, 250, 128, 114, 250, 83, 255, 95, 161, 212, 151, 61,
               92, 4, 68, 79, 160, 255, 208, 68, 238, 131, 209, 217,
               89, 178, 105, 255, 13, 202, 157, 22, 19, 205, 201, 116,
               69, 153, 198, 51, 202, 21, 3, 102, 152, 81, 205, 47,
               15, 221, 105, 58>>
      [] in = "" ->
             <<207, 131, 225, 53, 126, 239, 184, 189, 241, 84, 40, 80,
               214, 109, 128, 7, 214, 32, 228, 5, 11, 87, 21, 220,
               131, 244, 169, 33, 211, 108, 233, 206, 71, 208, 209, 60,
               93, 133, 242, 176, 255, 131, 24, 210, 135, 126, 236, 47,
               99, 185, 49, 189, 71, 65, 122, 129, 165, 56, 50, 122,
               249, 39, 218, 62>>

\* The alphabet of base64.StdEncoding, and its padding character.
EncodeStd ==
    <<"A", "B", "C", "D", "E", "F", "G", "H", "I", "J", "K", "L", "M",
      "N", "O", "P", "Q", "R", "S", "T", "U", "V", "W", "X", "Y", "Z",
      "a", "b", "c", "d", "e", "f", "g", "h", "i", "j", "k", "l", "m",
      "n", "o", "p", "q", "r", "s", "t", "u", "v", "w", "x", "y", "z",
      "0", "1", "2", "3", "4", "5", "6", "7", "8", "9", "+", "/">>
StdPadding == "="

\* base64.RawStdEncoding.EncodeToString: the same alphabet, no padding.
RECURSIVE RawEncodeToString(_)
RawEncodeToString(src) ==
    CASE Len(src) = 0 -> ""
      [] Len(src) = 1 ->
           EncodeStd[(src[1] \div 4) + 1]
             \o EncodeStd[((src[1] % 4) * 16) + 1]
      [] Len(src) = 2 ->
           EncodeStd[(src[1] \div 4) + 1]
             \o EncodeStd[((src[1] % 4) * 16 + (src[2] \div 16)) + 1]
             \o EncodeStd[((src[2] % 16) * 4) + 1]
      [] OTHER ->
           EncodeStd[(src[1] \div 4) + 1]
             \o EncodeStd[((src[1] % 4) * 16 + (src[2] \div 16)) + 1]
             \o EncodeStd[((src[2] % 16) * 4 + (src[3] \div 64)) + 1]
             \o EncodeStd[(src[3] % 64) + 1]
             \o RawEncodeToString(SubSeq(src, 4, Len(src)))

\* base64.StdEncoding.EncodeToString: three bytes give four characters of
\* six bits each; a last group of one or two bytes is padded to four
\* characters with "=".
RECURSIVE EncodeToString(_)
EncodeToString(src) ==
    CASE Len(src) = 0 -> ""
      [] Len(src) = 1 ->
           EncodeStd[(src[1] \div 4) + 1]
             \o EncodeStd[((src[1] % 4) * 16) + 1]
             \o StdPadding \o StdPadding
      [] Len(src) = 2 ->
           EncodeStd[(src[1] \div 4) + 1]
             \o EncodeStd[((src[1] % 4) * 16 + (src[2] \div 16)) + 1]
             \o EncodeStd[((src[2] % 16) * 4) + 1]
             \o StdPadding
      [] OTHER ->
           EncodeStd[(src[1] \div 4) + 1]
             \o EncodeStd[((src[1] % 4) * 16 + (src[2] \div 16)) + 1]
             \o EncodeStd[((src[2] % 16) * 4 + (src[3] \div 64)) + 1]
             \o EncodeStd[(src[3] % 64) + 1]
             \o EncodeToString(SubSeq(src, 4, Len(src)))

\* The strings Compute is called with.
ComputeInputs == Passwords \cup {""}

\* Compute on each of its inputs, evaluated once.
ComputeOf == [in \in ComputeInputs |-> EncodeToString(Sum512(in))]

Compute(in) == ComputeOf[in]

(***************************************************************************)
(* Stats (stats.go).  Total is the count, totalTime the cumulative         *)
(* duration in nanoseconds, Avg the average in milliseconds.  Avg is a     *)
(* float64 in the code; the model keeps the quotient exact, as a fraction  *)
(* <<numerator, denominator>> in lowest terms.                             *)
(***************************************************************************)
RECURSIVE GCD(_, _)
GCD(a, b) == IF b = 0 THEN a ELSE GCD(b, a % b)

\* n / d as a fraction in lowest terms (d > 0).
Frac(n, d) == LET g == GCD(n, d) IN <<n \div g, d \div g>>

\* float64(totalTime.Nanoseconds()) / float64(Total) / 1000000
AvgMillis(totalTime, total) == Frac(totalTime, total * 1000000)

\* The zero value of Stats: var stats Stats.
ZeroStats == [Total |-> 0, Avg |-> <<0, 1>>, totalTime |-> 0]

\* Stats.update with the average computed before the duration is added.
updateStaleAvg(s, elapsed) ==
    LET total == s.Total + 1
    IN  [Total |-> total, Avg |-> AvgMillis(s.totalTime, total),
         totalTime |-> s.totalTime + elapsed]

\* Stats.update: s.Total++; s.totalTime += elapsed; s.Avg = ...
update(s, elapsed) ==
    LET total == s.Total + 1
        time  == s.totalTime + elapsed
    IN  [Total |-> total, Avg |-> AvgMillis(time, total), totalTime |-> time]

(***************************************************************************)
(* The map of hashes: a function from the ids present to their hashes.     *)
(***************************************************************************)
\* make(map[int64]string)
EmptyMap == [i \in {} |-> ""]

\* A put that stores nothing.
MapPutDropped(m, id, hash) == m

\* hashes[id] = hash
MapPut(m, id, hash) == [i \in DOMAIN m \cup {id} |-> IF i = id THEN hash ELSE m[i]]

\* delete(hashes, id)
MapDelete(m, id) == [i \in DOMAIN m \ {id} |-> m[i]]

\* atomic.LoadInt64 in the place of atomic.AddInt64: the counter is read and
\* not advanced.
AddInt64Load(v, delta) == v

\* atomic.AddInt64(&h.asyncId, 1): the new value.
AddInt64(v, delta) == v + delta

(***************************************************************************)
(* What the step just taken returned to a caller (variable ret); NoRes     *)
(* when the step was not the return of a call.  op names the call; id is   *)
(* the id Compute returned or GetAndRemoveHash was called                  *)
(* with; hash and ok are GetAndRemoveHash's (string, error), with ok for   *)
(* a nil error; snap is the Stats value Stats returned; seen, for Drain,   *)
(* is the units that had not passed wg.Done() when Drain was called        *)
(* (history).                                                              *)
(***************************************************************************)
NoRes == [op |-> "none", id |-> 0, hash |-> "", ok |-> FALSE,
          snap |-> ZeroStats, seen |-> {}]

\* A caller between calls.  In a call, pc is where the caller is, arg the id
\* it holds (Compute's new id, GetAndRemoveHash's argument), pw Compute's
\* password, and seen the units that had not passed wg.Done() when it called
\* Drain (history).
IdleClient == [pc |-> "idle", arg |-> 0, pw |-> "", seen |-> {}]

\* The lookup of GetAndRemoveHash without the test of exists: a missing key
\* reads as the zero value "" and no error is returned.
GetResultNoCheck(m, id) ==
    [NoRes EXCEPT !.op = "get", !.id = id, !.ok = TRUE,
                  !.hash = IF id \in DOMAIN m THEN m[id] ELSE ""]

\* The result of the lookup and delete of GetAndRemoveHash on map m.
GetResult(m, id) ==
    IF id \in DOMAIN m
    THEN [NoRes EXCEPT !.op = "get", !.id = id, !.hash = m[id], !.ok = TRUE]
    ELSE [NoRes EXCEPT !.op = "get", !.id = id]

\* GetAndRemoveHash without its delete: the entry stays in the map.
GetRemoveKeeps(m, id) == m

\* A lookup that leaves the zero value behind under a missing key.
GetRemoveStoresMiss(m, id) ==
    IF id \in DOMAIN m THEN MapDelete(m, id) ELSE MapPut(m, id, "")

\* The map after the lookup and delete of GetAndRemoveHash.
GetRemove(m, id) == IF id \in DOMAIN m THEN MapDelete(m, id) ELSE m

UnitIds == 1 .. Len(units)

(***************************************************************************)
(* The http server of package server (server.go), around the hasher.       *)
(* listener is where the goroutine of s.srv.ListenAndServe() is, runPc     *)
(* where Run is, shutdownChan the buffered channel of Server, reqs the     *)
(* requests being handled, one per connection.  resp is the response the   *)
(* step just taken wrote (NoResp when it wrote none); handled counts the   *)
(* invocations of shutdownHandler (history).  With no server (the hasher   *)
(* used on its own) listener and runPc are "none".                         *)
(***************************************************************************)
\* The connections of the server; each carries one request at a time.
Conns == {"h1", "h2"}

\* A connection with no request in progress.
NoReq ==
    [pc |-> "none", method |-> "", route |-> "", path |-> "", password |-> "",
     id |-> 0]

\* No response written.  status is the HTTP status, id the id printed by
\* hashPOSTHandler.
NoResp == [conn |-> "", status |-> 0, id |-> 0]

\* The hasher used on its own: there is no server.
NoServer ==
    /\ listener = "none"
    /\ runPc = "none"
    /\ shutdownChan = <<>>
    /\ reqs = [h \in Conns |-> NoReq]
    /\ resp = NoResp
    /\ handled = 0

\* No call of a function on its own is being checked.
NoCall == input = <<>> /\ output = <<>>

Min(a, b) == IF a < b THEN a ELSE b

(***************************************************************************)
(* NewHasher: the state NewHasherMutex / NewHasherChannel returns.  The    *)
(* channel hasher's event loop goroutine has been started and has not run  *)
(* yet.                                                                    *)
(***************************************************************************)
NewHasher ==
    /\ variant \in {"mutex", "channel"}
    /\ asyncId = 0
    /\ wg = 0
    /\ hashes = EmptyMap
    /\ stats = ZeroStats
    /\ hashPutChan = <<>>
    /\ hashRequestChan = <<>>
    /\ statUpdateChan = <<>>
    /\ loop = IF variant = "channel" THEN "start" ELSE "none"
    /\ units = <<>>
    /\ clients = [c \in Clients |-> IdleClient]
    /\ ret = NoRes
    /\ counted = {}
    /\ countedTime = 0
    /\ inserted = [i \in Ids |-> 0]
    /\ retrieved = [i \in Ids |-> 0]
    /\ drained = FALSE

Init == NewHasher /\ NoServer /\ NoCall

(***************************************************************************)
(* Compute, the caller's part (the same in both implementations).          *)
(***************************************************************************)
\* The Compute calls made so far: those that returned and those in progress.
ComputeCalls == Len(units) + Cardinality({c \in Clients : clients[c].pc = "c_add"})

\* id := atomic.AddInt64(&h.asyncId, 1)
ComputeStart(c, p) ==
    /\ clients[c].pc = "idle"
    /\ ComputeCalls < MaxJobs
    /\ asyncId' = AddInt64(asyncId, 1)
    /\ clients' = [clients EXCEPT ![c] =
                     [IdleClient EXCEPT !.pc = "c_add", !.arg = asyncId', !.pw = p]]
    /\ drained' = FALSE
    /\ ret' = NoRes
    /\ resp' = NoResp
    /\ UNCHANGED <<variant, wg, hashes, stats, hashPutChan, hashRequestChan,
                   statUpdateChan, loop, units, counted, countedTime, inserted,
                   retrieved, listener, runPc, shutdownChan, reqs, handled,
                   input, output>>

\* Compute running the sleep and the hash itself before it returns, instead
\* of leaving them to the goroutine: the unit exists past its computation.
NewUnitInline(id, password) ==
    [id |-> id, password |-> password, pc |-> "stat", hash |-> Compute(password)]

\* The goroutine Compute starts, before it has run.
NewUnit(id, password) ==
    [id |-> id, password |-> password, pc |-> "sleep", hash |-> ""]

\* h.wg.Add(1); go func() {...}(); return id
ComputeSpawn(c) ==
    /\ clients[c].pc = "c_add"
    /\ wg' = wg + 1
    /\ units' = Append(units, NewUnit(clients[c].arg, clients[c].pw))
    /\ clients' = [clients EXCEPT ![c] = IdleClient]
    /\ ret' = [NoRes EXCEPT !.op = "compute", !.id = clients[c].arg]
    /\ resp' = NoResp
    /\ UNCHANGED <<variant, asyncId, hashes, stats, hashPutChan,
                   hashRequestChan, statUpdateChan, loop, counted, countedTime,
                   inserted, retrieved, drained, listener, runPc, shutdownChan,
                   reqs, handled, input, output>>

(***************************************************************************)
(* The background goroutine of Compute.                                    *)
(***************************************************************************)
\* The goroutine with its two publications in the other order: the hash is
\* published before the duration.
UnitStepsHashFirst == <<"sleep", "put", "stat", "fin", "done">>

\* The goroutine with wg.Done() moved up, before the two publications.
UnitStepsDoneFirst == <<"sleep", "fin", "stat", "put", "done">>

\* The order of the goroutine's statements, as the places it passes through:
\* "sleep" before the sleep and the hash computation, "stat" before it
\* publishes the duration, "put" before it publishes the hash, "fin" before
\* wg.Done(), "done" after it.
UnitSteps == <<"sleep", "stat", "put", "fin", "done">>

\* The place after pc.
NextPc(pc) == UnitSteps[1 + CHOOSE i \in 1 .. Len(UnitSteps) - 1 : UnitSteps[i] = pc]

\* The id the goroutine publishes under, read from the shared counter when it
\* publishes instead of from the id its Compute call was given.
UnitKeyShared(u) == asyncId

\* The id the goroutine publishes under: the variable id of its Compute call,
\* which the closure captures.
UnitKey(u) == units[u].id

\* time.Sleep(5 * time.Second); start := time.Now(); hash := Compute(password)
UnitCompute(u) ==
    /\ units[u].pc = "sleep"
    /\ units' = [units EXCEPT ![u].pc = NextPc("sleep"),
                              ![u].hash = Compute(units[u].password)]
    /\ ret' = NoRes
    /\ resp' = NoResp
    /\ UNCHANGED <<variant, asyncId, wg, hashes, stats, hashPutChan,
                   hashRequestChan, statUpdateChan, loop, clients, counted,
                   countedTime, inserted, retrieved, drained, listener, runPc,
                   shutdownChan, reqs, handled, input, output>>

\* AsyncHasherMutex:
\* h.statsMutex.Lock(); h.stats.update(time.Since(start)); h.statsMutex.Unlock()
UnitStatsUpdate(u, d) ==
    /\ variant = "mutex"
    /\ units[u].pc = "stat"
    /\ stats' = update(stats, d)
    /\ counted' = counted \cup {u}
    /\ countedTime' = countedTime + d
    /\ units' = [units EXCEPT ![u].pc = NextPc("stat")]
    /\ ret' = NoRes
    /\ resp' = NoResp
    /\ UNCHANGED <<variant, asyncId, wg, hashes, hashPutChan, hashRequestChan,
                   statUpdateChan, loop, clients, inserted, retrieved, drained,
                   listener, runPc, shutdownChan, reqs, handled, input, output>>

\* The history of insertions into the map, counted up to 2 for each id.
NoteInserted(id) == [inserted EXCEPT ![id] = Min(@ + 1, 2)]

\* AsyncHasherMutex:
\* h.hashMutex.Lock(); h.hashes[id] = hash; h.hashMutex.Unlock()
UnitHashPut(u) ==
    /\ variant = "mutex"
    /\ units[u].pc = "put"
    /\ hashes' = MapPut(hashes, UnitKey(u), units[u].hash)
    /\ inserted' = NoteInserted(UnitKey(u))
    /\ units' = [units EXCEPT ![u].pc = NextPc("put")]
    /\ ret' = NoRes
    /\ resp' = NoResp
    /\ UNCHANGED <<variant, asyncId, wg, stats, hashPutChan, hashRequestChan,
                   statUpdateChan, loop, clients, counted, countedTime,
                   retrieved, drained, listener, runPc, shutdownChan, reqs,
                   handled, input, output>>

\* AsyncHasherChannel: h.statUpdateChan <- time.Since(start)
\* (the message carries, as history, the unit that sent it)
UnitSendStat(u, d) ==
    /\ variant = "channel"
    /\ units[u].pc = "stat"
    /\ Len(statUpdateChan) < ChanCap
    /\ statUpdateChan' = Append(statUpdateChan, [elapsed |-> d, unit |-> u])
    /\ units' = [units EXCEPT ![u].pc = NextPc("stat")]
    /\ ret' = NoRes
    /\ resp' = NoResp
    /\ UNCHANGED <<variant, asyncId, wg, hashes, stats, hashPutChan,
                   hashRequestChan, loop, clients, counted, countedTime,
                   inserted, retrieved, drained, listener, runPc, shutdownChan,
                   reqs, handled, input, output>>

\* AsyncHasherChannel: h.hashPutChan <- hashPair{id, hash}
UnitSendPut(u) ==
    /\ variant = "channel"
    /\ units[u].pc = "put"
    /\ Len(hashPutChan) < ChanCap
    /\ hashPutChan' = Append(hashPutChan, [id |-> UnitKey(u), hash |-> units[u].hash])
    /\ units' = [units EXCEPT ![u].pc = NextPc("put")]
    /\ ret' = NoRes
    /\ resp' = NoResp
    /\ UNCHANGED <<variant, asyncId, wg, hashes, stats, hashRequestChan,
                   statUpdateChan, loop, clients, counted, countedTime,
                   inserted, retrieved, drained, listener, runPc, shutdownChan,
                   reqs, handled, input, output>>

\* h.wg.Done(), the last statement of the goroutine
UnitDone(u) ==
    /\ units[u].pc = "fin"
    /\ wg' = wg - 1
    /\ units' = [units EXCEPT ![u].pc = NextPc("fin")]
    /\ ret' = NoRes
    /\ resp' = NoResp
    /\ UNCHANGED <<variant, asyncId, hashes, stats, hashPutChan,
                   hashRequestChan, statUpdateChan, loop, clients, counted,
                   countedTime, inserted, retrieved, drained, listener, runPc,
                   shutdownChan, reqs, handled, input, output>>

(***************************************************************************)
(* GetAndRemoveHash.                                                       *)
(***************************************************************************)
\* The history of successful retrievals, counted up to 2 for each id.
NoteRetrieved(res) ==
    IF res.ok THEN [retrieved EXCEPT ![res.id] = Min(@ + 1, 2)] ELSE retrieved

\* AsyncHasherMutex: GetAndRemoveHash(id) is called and reaches h.hashMutex.Lock().
GetCall(c, id) ==
    /\ variant = "mutex"
    /\ clients[c].pc = "idle"
    /\ clients' = [clients EXCEPT ![c] = [IdleClient EXCEPT !.pc = "g_wait", !.arg = id]]
    /\ ret' = NoRes
    /\ resp' = NoResp
    /\ UNCHANGED <<variant, asyncId, wg, hashes, stats, hashPutChan,
                   hashRequestChan, statUpdateChan, loop, units, counted,
                   countedTime, inserted, retrieved, drained, listener, runPc,
                   shutdownChan, reqs, handled, input, output>>

\* AsyncHasherMutex: the critical section of GetAndRemoveHash.
\* val, exists := h.hashes[id]; if !exists { return "", errors.New(...) };
\* delete(h.hashes, id); return val, nil
GetFinish(c) ==
    /\ variant = "mutex"
    /\ clients[c].pc = "g_wait"
    /\ LET res == GetResult(hashes, clients[c].arg) IN
         /\ hashes' = GetRemove(hashes, clients[c].arg)
         /\ retrieved' = NoteRetrieved(res)
         /\ ret' = res
    /\ clients' = [clients EXCEPT ![c] = IdleClient]
    /\ resp' = NoResp
    /\ UNCHANGED <<variant, asyncId, wg, stats, hashPutChan, hashRequestChan,
                   statUpdateChan, loop, units, counted, countedTime, inserted,
                   drained, listener, runPc, shutdownChan, reqs, handled,
                   input, output>>

\* AsyncHasherChannel:
\* respChan := make(chan hashResponse); h.hashRequestChan <- hashRequest{id, respChan}
\* The caller then waits in resp := <-respChan.
GetSend(c, id) ==
    /\ variant = "channel"
    /\ clients[c].pc = "idle"
    /\ Len(hashRequestChan) < ChanCap
    /\ hashRequestChan' = Append(hashRequestChan, [id |-> id, resp |-> c])
    /\ clients' = [clients EXCEPT ![c] = [IdleClient EXCEPT !.pc = "g_wait", !.arg = id]]
    /\ ret' = NoRes
    /\ resp' = NoResp
    /\ UNCHANGED <<variant, asyncId, wg, hashes, stats, hashPutChan,
                   statUpdateChan, loop, units, counted, countedTime, inserted,
                   retrieved, drained, listener, runPc, shutdownChan, reqs,
                   handled, input, output>>

(***************************************************************************)
(* Stats.                                                                  *)
(***************************************************************************)
\* Stats is called.  AsyncHasherMutex reaches h.statsMutex.Lock(),
\* AsyncHasherChannel the receive <-h.statsChan.
StatsCall(c) ==
    /\ clients[c].pc = "idle"
    /\ clients' = [clients EXCEPT ![c] = [IdleClient EXCEPT !.pc = "s_wait"]]
    /\ ret' = NoRes
    /\ resp' = NoResp
    /\ UNCHANGED <<variant, asyncId, wg, hashes, stats, hashPutChan,
                   hashRequestChan, statUpdateChan, loop, units, counted,
                   countedTime, inserted, retrieved, drained, listener, runPc,
                   shutdownChan, reqs, handled, input, output>>

\* The value a Stats call returns: a copy of stats.
Snapshot(s) == [NoRes EXCEPT !.op = "stats", !.snap = s]

\* A Stats that hands out the value and starts the statistics afresh.
StatsReturnResets(c) ==
    /\ variant = "mutex"
    /\ clients[c].pc = "s_wait"
    /\ ret' = Snapshot(stats)
    /\ stats' = ZeroStats
    /\ clients' = [clients EXCEPT ![c] = IdleClient]
    /\ resp' = NoResp
    /\ UNCHANGED <<variant, asyncId, wg, hashes, hashPutChan, hashRequestChan,
                   statUpdateChan, loop, units, counted, countedTime, inserted,
                   retrieved, drained, listener, runPc, shutdownChan, reqs,
                   handled, input, output>>

\* AsyncHasherMutex: the critical section of Stats: return h.stats
StatsReturn(c) ==
    /\ variant = "mutex"
    /\ clients[c].pc = "s_wait"
    /\ ret' = Snapshot(stats)
    /\ clients' = [clients EXCEPT ![c] = IdleClient]
    /\ resp' = NoResp
    /\ UNCHANGED <<variant, asyncId, wg, hashes, stats, hashPutChan,
                   hashRequestChan, statUpdateChan, loop, units, counted,
                   countedTime, inserted, retrieved, drained, listener, runPc,
                   shutdownChan, reqs, handled, input, output>>

(***************************************************************************)
(* Drain.                                                                  *)
(***************************************************************************)
\* The units that have not passed wg.Done().
Outstanding == {u \in UnitIds : units[u].pc # "done"}

\* Drain is called.  AsyncHasherMutex reaches h.wg.Wait(); AsyncHasherChannel
\* first sends on the unbuffered channel: h.shutdown <- nil.
DrainCall(c) ==
    /\ clients[c].pc = "idle"
    /\ clients' = [clients EXCEPT ![c] =
                     [IdleClient EXCEPT !.pc = IF variant = "mutex" THEN "d_wait" ELSE "d_send",
                                        !.seen = Outstanding]]
    /\ ret' = NoRes
    /\ resp' = NoResp
    /\ UNCHANGED <<variant, asyncId, wg, hashes, stats, hashPutChan,
                   hashRequestChan, statUpdateChan, loop, units, counted,
                   countedTime, inserted, retrieved, drained, listener, runPc,
                   shutdownChan, reqs, handled, input, output>>

\* A Wait that returns one Done early.
WaitDoneEarly(n) == n <= 1

\* WaitGroup.Wait returns when the counter is zero.
WaitDone(n) == n = 0

\* h.wg.Wait() returns, and Drain with it.
DrainReturn(c) ==
    /\ clients[c].pc = "d_wait"
    /\ WaitDone(wg)
    /\ ret' = [NoRes EXCEPT !.op = "drain", !.seen = clients[c].seen]
    /\ clients' = [clients EXCEPT ![c] = IdleClient]
    /\ drained' = (ComputeCalls = Len(units))
    /\ resp' = NoResp
    /\ UNCHANGED <<variant, asyncId, wg, hashes, stats, hashPutChan,
                   hashRequestChan, statUpdateChan, loop, units, counted,
                   countedTime, inserted, retrieved, listener, runPc,
                   shutdownChan, reqs, handled, input, output>>

(***************************************************************************)
(* AsyncHasherChannel.eventLoop.  hashes and stats are its local variables. *)
(***************************************************************************)
\* h.wg.Add(1); var hashes = make(map[int64]string); var stats Stats
LoopStart ==
    /\ loop = "start"
    /\ wg' = wg + 1
    /\ loop' = "select"
    /\ ret' = NoRes
    /\ resp' = NoResp
    /\ UNCHANGED <<variant, asyncId, hashes, stats, hashPutChan,
                   hashRequestChan, statUpdateChan, units, clients, counted,
                   countedTime, inserted, retrieved, drained, listener, runPc,
                   shutdownChan, reqs, handled, input, output>>

\* case pair := <-h.hashPutChan: hashes[pair.id] = pair.hash
LoopPut ==
    /\ loop = "select"
    /\ hashPutChan # <<>>
    /\ hashes' = MapPut(hashes, Head(hashPutChan).id, Head(hashPutChan).hash)
    /\ inserted' = NoteInserted(Head(hashPutChan).id)
    /\ hashPutChan' = Tail(hashPutChan)
    /\ ret' = NoRes
    /\ resp' = NoResp
    /\ UNCHANGED <<variant, asyncId, wg, stats, hashRequestChan,
                   statUpdateChan, loop, units, clients, counted, countedTime,
                   retrieved, drained, listener, runPc, shutdownChan, reqs,
                   handled, input, output>>

\* case req := <-h.hashRequestChan: the lookup, the delete, and the send of
\* the response on req.resp, where the caller is waiting.
LoopRequest ==
    /\ loop = "select"
    /\ hashRequestChan # <<>>
    /\ LET req == Head(hashRequestChan)
           res == GetResult(hashes, req.id)
       IN  /\ hashes' = GetRemove(hashes, req.id)
           /\ retrieved' = NoteRetrieved(res)
           /\ ret' = res
           /\ clients' = [clients EXCEPT ![req.resp] = IdleClient]
    /\ hashRequestChan' = Tail(hashRequestChan)
    /\ resp' = NoResp
    /\ UNCHANGED <<variant, asyncId, wg, stats, hashPutChan, statUpdateChan,
                   loop, units, counted, countedTime, inserted, drained,
                   listener, runPc, shutdownChan, reqs, handled, input, output>>

\* case h.statsChan <- stats: a caller waiting in Stats receives the value.
LoopStats(c) ==
    /\ variant = "channel"
    /\ loop = "select"
    /\ clients[c].pc = "s_wait"
    /\ ret' = Snapshot(stats)
    /\ clients' = [clients EXCEPT ![c] = IdleClient]
    /\ resp' = NoResp
    /\ UNCHANGED <<variant, asyncId, wg, hashes, stats, hashPutChan,
                   hashRequestChan, statUpdateChan, loop, units, counted,
                   countedTime, inserted, retrieved, drained, listener, runPc,
                   shutdownChan, reqs, handled, input, output>>

\* case elapsed := <-h.statUpdateChan: stats.update(elapsed)
LoopStatUpdate ==
    /\ loop = "select"
    /\ statUpdateChan # <<>>
    /\ stats' = update(stats, Head(statUpdateChan).elapsed)
    /\ counted' = counted \cup {Head(statUpdateChan).unit}
    /\ countedTime' = countedTime + Head(statUpdateChan).elapsed
    /\ statUpdateChan' = Tail(statUpdateChan)
    /\ ret' = NoRes
    /\ resp' = NoResp
    /\ UNCHANGED <<variant, asyncId, wg, hashes, hashPutChan, hashRequestChan,
                   loop, units, clients, inserted, retrieved, drained,
                   listener, runPc, shutdownChan, reqs, handled, input, output>>

\* case <-h.shutdown: break loop.  The receive completes Drain's send.
LoopShutdown(c) ==
    /\ loop = "select"
    /\ clients[c].pc = "d_send"
    /\ loop' = "exit"
    /\ clients' = [clients EXCEPT ![c].pc = "d_wait"]
    /\ ret' = NoRes
    /\ resp' = NoResp
    /\ UNCHANGED <<variant, asyncId, wg, hashes, stats, hashPutChan,
                   hashRequestChan, statUpdateChan, units, counted,
                   countedTime, inserted, retrieved, drained, listener, runPc,
                   shutdownChan, reqs, handled, input, output>>

\* h.wg.Done(), after the loop
LoopDone ==
    /\ loop = "exit"
    /\ wg' = wg - 1
    /\ loop' = "done"
    /\ ret' = NoRes
    /\ resp' = NoResp
    /\ UNCHANGED <<variant, asyncId, hashes, stats, hashPutChan,
                   hashRequestChan, statUpdateChan, units, clients, counted,
                   countedTime, inserted, retrieved, drained, listener, runPc,
                   shutdownChan, reqs, handled, input, output>>

(***************************************************************************)
(* The specification.                                                      *)
(***************************************************************************)
Next ==
    \/ \E c \in Clients, p \in Passwords : ComputeStart(c, p)
    \/ \E c \in Clients : ComputeSpawn(c)
    \/ \E u \in UnitIds : UnitCompute(u)
    \/ \E u \in UnitIds, d \in Durations : UnitStatsUpdate(u, d)
    \/ \E u \in UnitIds : UnitHashPut(u)
    \/ \E u \in UnitIds, d \in Durations : UnitSendStat(u, d)
    \/ \E u \in UnitIds : UnitSendPut(u)
    \/ \E u \in UnitIds : UnitDone(u)
    \/ \E c \in Clients, id \in GetIds : GetCall(c, id)
    \/ \E c \in Clients : GetFinish(c)
    \/ \E c \in Clients, id \in GetIds : GetSend(c, id)
    \/ \E c \in Clients : StatsCall(c)
    \/ \E c \in Clients : StatsReturn(c)
    \/ \E c \in Clients : DrainCall(c)
    \/ \E c \in Clients : DrainReturn(c)
    \/ LoopStart
    \/ LoopPut
    \/ LoopRequest
    \/ \E c \in Clients : LoopStats(c)
    \/ LoopStatUpdate
    \/ \E c \in Clients : LoopShutdown(c)
    \/ LoopDone

Spec == Init /\ [][Next]_vars

(***************************************************************************)
(* package server.  New(port) has made the Server and its hasher; Run has  *)
(* registered the handlers, started the goroutine of ListenAndServe and    *)
(* reached its select.  Which function net/http calls for a request is     *)
(* given by the route the request is for; r.URL.Path and the form value    *)
(* are drawn from small sets.  A panic ends the process: nothing steps     *)
(* after it.  listener is "init" before ListenAndServe listens, "serving"  *)
(* while it accepts, "failed" when it has returned an error that its       *)
(* goroutine is sending on listenErr, "reported" when Run has received     *)
(* that error, and "closed" when Shutdown has closed it.                   *)
(***************************************************************************)
ServerInit ==
    /\ NewHasher
    /\ listener = "init"
    /\ runPc = "select"
    /\ shutdownChan = <<>>
    /\ reqs = [h \in Conns |-> NoReq]
    /\ resp = NoResp
    /\ handled = 0
    /\ NoCall

\* The process is running.
Alive == runPc # "panic"

\* r.URL.Path of the requests sent to the handler of POST /hash.
PostPaths == {"/hash", "/hash/1"}

\* The password form values of those requests; "" when the parameter is
\* missing or empty.
FormPasswords == {"", "angryMonkey"}

\* s.srv.ListenAndServe() listens on the port and starts accepting.
ListenStart ==
    /\ Alive
    /\ listener = "init"
    /\ listener' = "serving"
    /\ ret' = NoRes
    /\ resp' = NoResp
    /\ UNCHANGED <<variant, asyncId, wg, hashes, stats, hashPutChan,
                   hashRequestChan, statUpdateChan, loop, units, clients,
                   counted, countedTime, inserted, retrieved, drained, runPc,
                   shutdownChan, reqs, handled, input, output>>

\* s.srv.ListenAndServe() cannot listen on the port and returns an error:
\* the goroutine reaches listenErr <- err.
ListenFails ==
    /\ Alive
    /\ listener = "init"
    /\ listener' = "failed"
    /\ ret' = NoRes
    /\ resp' = NoResp
    /\ UNCHANGED <<variant, asyncId, wg, hashes, stats, hashPutChan,
                   hashRequestChan, statUpdateChan, loop, units, clients,
                   counted, countedTime, inserted, retrieved, drained, runPc,
                   shutdownChan, reqs, handled, input, output>>

\* s.srv.ListenAndServe() returns an error out of its accept loop, while
\* connections are open: the goroutine reaches listenErr <- err.  The
\* requests being handled go on.
AcceptFails ==
    /\ Alive
    /\ listener = "serving"
    /\ listener' = "failed"
    /\ ret' = NoRes
    /\ resp' = NoResp
    /\ UNCHANGED <<variant, asyncId, wg, hashes, stats, hashPutChan,
                   hashRequestChan, statUpdateChan, loop, units, clients,
                   counted, countedTime, inserted, retrieved, drained, runPc,
                   shutdownChan, reqs, handled, input, output>>

\* A POST request for a route with a POST handler arrives on a connection:
\* net/http calls the registered function, which is mux's and calls the
\* handler, in the connection's goroutine.
Accept(h, route, path, password) ==
    /\ Alive
    /\ listener = "serving"
    /\ reqs[h].pc = "none"
    /\ reqs' = [reqs EXCEPT ![h] = [NoReq EXCEPT !.pc = "recv", !.method = "POST",
                                                 !.route = route, !.path = path,
                                                 !.password = password]]
    /\ ret' = NoRes
    /\ resp' = NoResp
    /\ UNCHANGED <<variant, asyncId, wg, hashes, stats, hashPutChan,
                   hashRequestChan, statUpdateChan, loop, units, clients,
                   counted, countedTime, inserted, retrieved, drained,
                   listener, runPc, shutdownChan, handled, input, output>>

(***************************************************************************)
(* mux.  Run registers mux(s.hashGETHandler, s.hashPOSTHandler) for        *)
(* "/hash/", mux(s.statsHandler, nil) for "/stats" and                     *)
(* mux(nil, s.shutdownHandler) for "/shutdown".                            *)
(***************************************************************************)
GetHandlers ==
    [hash |-> "hashGETHandler", stats |-> "statsHandler", shutdown |-> "nil"]

PostHandlers ==
    [hash |-> "hashPOSTHandler", stats |-> "nil", shutdown |-> "shutdownHandler"]

\* What the function mux(get, post) returns does with a request of a method:
\* the status it writes with http.Error (0 when it writes none) and the
\* function it calls after that ("none" when it calls no function).  The
\* POST and GET cases have no return after http.Error: post(w, r) and
\* get(w, r) are called whether or not they are nil.
mux(get, post, method) ==
    CASE method = "POST" ->
           [status |-> IF post = "nil" THEN 405 ELSE 0, call |-> post]
      [] method = "GET" ->
           [status |-> IF get = "nil" THEN 405 ELSE 0, call |-> get]
      [] OTHER -> [status |-> 405, call |-> "none"]

\* Requests on the registered routes whose method has no handler: the two
\* with a nil function, and one with a method other than GET and POST.
UnhandledRequests ==
    {<<"stats", "POST">>, <<"shutdown", "GET">>, <<"hash", "DELETE">>}

\* Such a request arrives on a connection and net/http calls the function
\* registered for its route.
AcceptUnhandled(h, route, method) ==
    /\ Alive
    /\ listener = "serving"
    /\ reqs[h].pc = "none"
    /\ reqs' = [reqs EXCEPT ![h] = [NoReq EXCEPT !.pc = "mux", !.method = method,
                                                 !.route = route]]
    /\ ret' = NoRes
    /\ resp' = NoResp
    /\ UNCHANGED <<variant, asyncId, wg, hashes, stats, hashPutChan,
                   hashRequestChan, statUpdateChan, loop, units, clients,
                   counted, countedTime, inserted, retrieved, drained,
                   listener, runPc, shutdownChan, handled, input, output>>

\* The function mux returned, up to the call it makes or to its return.
MuxServe(h) ==
    /\ Alive
    /\ reqs[h].pc = "mux"
    /\ LET m == mux(GetHandlers[reqs[h].route], PostHandlers[reqs[h].route],
                    reqs[h].method)
       IN  /\ resp' = IF m.status = 0 THEN NoResp
                      ELSE [NoResp EXCEPT !.conn = h, !.status = m.status]
           /\ reqs' = [reqs EXCEPT ![h] =
                         CASE m.call = "none" -> NoReq
                           [] m.call = "nil" -> [@ EXCEPT !.pc = "nilcall"]
                           [] OTHER -> [@ EXCEPT !.pc = "recv"]]
    /\ ret' = NoRes
    /\ UNCHANGED <<variant, asyncId, wg, hashes, stats, hashPutChan,
                   hashRequestChan, statUpdateChan, loop, units, clients,
                   counted, countedTime, inserted, retrieved, drained,
                   listener, runPc, shutdownChan, handled, input, output>>

\* post(w, r) or get(w, r) with a nil function: the call panics in the
\* connection's goroutine.  net/http recovers a handler's panic and closes
\* the connection; the process goes on.
NilCall(h) ==
    /\ Alive
    /\ reqs[h].pc = "nilcall"
    /\ reqs' = [reqs EXCEPT ![h] = NoReq]
    /\ ret' = NoRes
    /\ resp' = NoResp
    /\ UNCHANGED <<variant, asyncId, wg, hashes, stats, hashPutChan,
                   hashRequestChan, statUpdateChan, loop, units, clients,
                   counted, countedTime, inserted, retrieved, drained,
                   listener, runPc, shutdownChan, handled, input, output>>

(***************************************************************************)
(* hashPOSTHandler                                                         *)
(***************************************************************************)
\* A handler that does not look at the password.
PostErrorPathOnly(path, password) == IF path # "/hash" THEN 404 ELSE 0

\* The status hashPOSTHandler rejects a request with; 0 when it accepts it.
PostError(path, password) ==
    IF path # "/hash" THEN 404
    ELSE IF password = "" THEN 400
    ELSE 0

\* http.Error(w, ..., 404) or http.Error(w, ..., 400); return
PostReject(h) ==
    /\ Alive
    /\ reqs[h].pc = "recv"
    /\ reqs[h].route = "hash"
    /\ PostError(reqs[h].path, reqs[h].password) # 0
    /\ resp' = [NoResp EXCEPT !.conn = h,
                              !.status = PostError(reqs[h].path, reqs[h].password)]
    /\ reqs' = [reqs EXCEPT ![h] = NoReq]
    /\ ret' = NoRes
    /\ UNCHANGED <<variant, asyncId, wg, hashes, stats, hashPutChan,
                   hashRequestChan, statUpdateChan, loop, units, clients,
                   counted, countedTime, inserted, retrieved, drained,
                   listener, runPc, shutdownChan, handled, input, output>>

\* The Compute calls the handlers have made.
HandlerComputeCalls == Len(units) + Cardinality({h \in Conns : reqs[h].pc = "c_add"})

\* id := s.hasher.Compute(password), up to Compute's atomic.AddInt64
PostCompute(h) ==
    /\ Alive
    /\ reqs[h].pc = "recv"
    /\ reqs[h].route = "hash"
    /\ PostError(reqs[h].path, reqs[h].password) = 0
    /\ HandlerComputeCalls < MaxJobs
    /\ asyncId' = AddInt64(asyncId, 1)
    /\ reqs' = [reqs EXCEPT ![h].pc = "c_add", ![h].id = asyncId']
    /\ drained' = FALSE
    /\ ret' = NoRes
    /\ resp' = NoResp
    /\ UNCHANGED <<variant, wg, hashes, stats, hashPutChan, hashRequestChan,
                   statUpdateChan, loop, units, clients, counted, countedTime,
                   inserted, retrieved, listener, runPc, shutdownChan, handled,
                   input, output>>

\* The rest of Compute (h.wg.Add(1); go func() {...}(); return id) and
\* fmt.Fprintln(w, id)
PostReturn(h) ==
    /\ Alive
    /\ reqs[h].pc = "c_add"
    /\ wg' = wg + 1
    /\ units' = Append(units, NewUnit(reqs[h].id, reqs[h].password))
    /\ resp' = [NoResp EXCEPT !.conn = h, !.status = 200, !.id = reqs[h].id]
    /\ reqs' = [reqs EXCEPT ![h] = NoReq]
    /\ ret' = NoRes
    /\ UNCHANGED <<variant, asyncId, hashes, stats, hashPutChan,
                   hashRequestChan, statUpdateChan, loop, clients, counted,
                   countedTime, inserted, retrieved, drained, listener, runPc,
                   shutdownChan, handled, input, output>>

(***************************************************************************)
(* shutdownHandler                                                         *)
(***************************************************************************)
\* A send that is made whatever the buffer holds.
TrySendAlways(ch) == Append(ch, "nil")

\* make(chan interface{}, 1): the capacity of shutdownChan.
ShutdownChanCap == 1

\* select { case s.shutdownChan <- nil: default: }
TrySend(ch) == IF Len(ch) < ShutdownChanCap THEN Append(ch, "nil") ELSE ch

\* shutdownHandler, whole: the select and the return (status 200).
ShutdownHandle(h) ==
    /\ Alive
    /\ reqs[h].pc = "recv"
    /\ reqs[h].route = "shutdown"
    /\ shutdownChan' = TrySend(shutdownChan)
    /\ handled' = Min(handled + 1, 2)
    /\ resp' = [NoResp EXCEPT !.conn = h, !.status = 200]
    /\ reqs' = [reqs EXCEPT ![h] = NoReq]
    /\ ret' = NoRes
    /\ UNCHANGED <<variant, asyncId, wg, hashes, stats, hashPutChan,
                   hashRequestChan, statUpdateChan, loop, units, clients,
                   counted, countedTime, inserted, retrieved, drained,
                   listener, runPc, input, output>>

(***************************************************************************)
(* Server.Run, from its select on.                                         *)
(***************************************************************************)
\* case <-listenErr: the receive meets the goroutine's listenErr <- err.
RunListenErr ==
    /\ runPc = "select"
    /\ listener = "failed"
    /\ listener' = "reported"
    /\ runPc' = "drain"
    /\ ret' = NoRes
    /\ resp' = NoResp
    /\ UNCHANGED <<variant, asyncId, wg, hashes, stats, hashPutChan,
                   hashRequestChan, statUpdateChan, loop, units, clients,
                   counted, countedTime, inserted, retrieved, drained,
                   shutdownChan, reqs, handled, input, output>>

\* case <-s.shutdownChan: and the call of s.srv.Shutdown(ctx), which closes
\* the listener; ListenAndServe returns ErrServerClosed and its goroutine
\* ends.
RunShutdown ==
    /\ runPc = "select"
    /\ shutdownChan # <<>>
    /\ shutdownChan' = Tail(shutdownChan)
    /\ listener' = IF listener \in {"init", "serving"} THEN "closed" ELSE listener
    /\ runPc' = "shutdown"
    /\ ret' = NoRes
    /\ resp' = NoResp
    /\ UNCHANGED <<variant, asyncId, wg, hashes, stats, hashPutChan,
                   hashRequestChan, statUpdateChan, loop, units, clients,
                   counted, countedTime, inserted, retrieved, drained, reqs,
                   handled, input, output>>

\* A Shutdown that does not wait for the requests in progress.
QuiescentNoWait == TRUE

\* What s.srv.Shutdown(ctx) waits for: no connection has a request in
\* progress.
Quiescent == \A h \in Conns : reqs[h].pc = "none"

\* s.srv.Shutdown(ctx) returns nil.
RunShutdownDone ==
    /\ runPc = "shutdown"
    /\ Quiescent
    /\ runPc' = "drain"
    /\ ret' = NoRes
    /\ resp' = NoResp
    /\ UNCHANGED <<variant, asyncId, wg, hashes, stats, hashPutChan,
                   hashRequestChan, statUpdateChan, loop, units, clients,
                   counted, countedTime, inserted, retrieved, drained,
                   listener, shutdownChan, reqs, handled, input, output>>

\* s.srv.Shutdown(ctx) returns the context's error, a request still being
\* in progress after 30 seconds: panic(err)
RunShutdownTimeout ==
    /\ runPc = "shutdown"
    /\ ~Quiescent
    /\ runPc' = "panic"
    /\ ret' = NoRes
    /\ resp' = NoResp
    /\ UNCHANGED <<variant, asyncId, wg, hashes, stats, hashPutChan,
                   hashRequestChan, statUpdateChan, loop, units, clients,
                   counted, countedTime, inserted, retrieved, drained,
                   listener, shutdownChan, reqs, handled, input, output>>

\* s.hasher.Drain() is called.  AsyncHasherMutex reaches h.wg.Wait(),
\* AsyncHasherChannel its send h.shutdown <- nil.
RunDrainCall ==
    /\ runPc = "drain"
    /\ runPc' = IF variant = "mutex" THEN "d_wait" ELSE "d_send"
    /\ ret' = NoRes
    /\ resp' = NoResp
    /\ UNCHANGED <<variant, asyncId, wg, hashes, stats, hashPutChan,
                   hashRequestChan, statUpdateChan, loop, units, clients,
                   counted, countedTime, inserted, retrieved, drained,
                   listener, shutdownChan, reqs, handled, input, output>>

\* AsyncHasherChannel: the event loop receives Drain's shutdown message.
RunDrainSend ==
    /\ runPc = "d_send"
    /\ loop = "select"
    /\ loop' = "exit"
    /\ runPc' = "d_wait"
    /\ ret' = NoRes
    /\ resp' = NoResp
    /\ UNCHANGED <<variant, asyncId, wg, hashes, stats, hashPutChan,
                   hashRequestChan, statUpdateChan, units, clients, counted,
                   countedTime, inserted, retrieved, drained, listener,
                   shutdownChan, reqs, handled, input, output>>

\* h.wg.Wait() returns, Drain returns, Run prints and returns.
RunDrainReturn ==
    /\ runPc = "d_wait"
    /\ WaitDone(wg)
    /\ runPc' = "returned"
    /\ drained' = (HandlerComputeCalls = Len(units))
    /\ ret' = NoRes
    /\ resp' = NoResp
    /\ UNCHANGED <<variant, asyncId, wg, hashes, stats, hashPutChan,
                   hashRequestChan, statUpdateChan, loop, units, clients,
                   counted, countedTime, inserted, retrieved, listener,
                   shutdownChan, reqs, handled, input, output>>

ServerNext ==
    \/ ListenStart
    \/ ListenFails
    \/ AcceptFails
    \/ \E h \in Conns, path \in PostPaths, password \in FormPasswords :
          Accept(h, "hash", path, password)
    \/ \E h \in Conns : Accept(h, "shutdown", "/shutdown", "")
    \/ \E h \in Conns : PostReject(h)
    \/ \E h \in Conns : PostCompute(h)
    \/ \E h \in Conns : PostReturn(h)
    \/ \E h \in Conns : ShutdownHandle(h)
    \/ RunListenErr
    \/ RunShutdown
    \/ RunShutdownDone
    \/ RunShutdownTimeout
    \/ RunDrainCall
    \/ RunDrainSend
    \/ RunDrainReturn
    \/ \E u \in UnitIds : Alive /\ UnitCompute(u)
    \/ \E u \in UnitIds : Alive /\ UnitStatsUpdate(u, 200000)
    \/ \E u \in UnitIds : Alive /\ UnitHashPut(u)
    \/ \E u \in UnitIds : Alive /\ UnitSendStat(u, 200000)
    \/ \E u \in UnitIds : Alive /\ UnitSendPut(u)
    \/ \E u \in UnitIds : Alive /\ UnitDone(u)
    \/ Alive /\ LoopStart
    \/ Alive /\ LoopPut
    \/ Alive /\ LoopStatUpdate
    \/ Alive /\ LoopDone

ServerSpec == ServerInit /\ [][ServerNext]_vars

\* The server with the requests that have no handler as well.
MuxNext ==
    \/ ServerNext
    \/ \E h \in Conns, rm \in UnhandledRequests : AcceptUnhandled(h, rm[1], rm[2])
    \/ \E h \in Conns : MuxServe(h)
    \/ \E h \in Conns : NilCall(h)

MuxSpec == ServerInit /\ [][MuxNext]_vars

(***************************************************************************)
(* parsePathParamInt (server.go).  A Go string is modelled as the sequence *)
(* of its characters, each a one-character string.                         *)
(***************************************************************************)

\* The longest remainder enumerated character by character.
MaxLen == 3

\* The characters the enumerated paths are made of.
PathChars == {"/", "0", "7", "-", "+", "x"}

Digits == {"0", "1", "2", "3", "4", "5", "6", "7", "8", "9"}

DigitVal ==
    "0" :> 0 @@ "1" :> 1 @@ "2" :> 2 @@ "3" :> 3 @@ "4" :> 4 @@
    "5" :> 5 @@ "6" :> 6 @@ "7" :> 7 @@ "8" :> 8 @@ "9" :> 9

\* The paths and prefixes of TestParse, TestParseFailures, TestParseSuccess.
SomePath == <<"/", "s", "o", "m", "e", "/", "p", "a", "t", "h">>
SomePathSlash == SomePath \o <<"/">>
Path345 == <<"/", "p", "a", "t", "h", "/", "3", "4", "5">>
PrefixSome == <<"/", "s", "o", "m", "e">>
PrefixSomeSlash == PrefixSome \o <<"/">>
PrefixSlash == <<"/">>
PrefixPath == <<"/", "p", "a", "t", "h", "/">>

\* The prefix hashGETHandler passes.
PrefixHash == <<"/", "h", "a", "s", "h", "/">>

\* math.MaxUint64 and 1 << 63, as decimal digits.
MaxUint64Digits ==
    <<1, 8, 4, 4, 6, 7, 4, 4, 0, 7, 3, 7, 0, 9, 5, 5, 1, 6, 1, 5>>
CutoffDigits ==
    <<9, 2, 2, 3, 3, 7, 2, 0, 3, 6, 8, 5, 4, 7, 7, 5, 8, 0, 8>>

\* Decimal strings around the limits of int64 and uint64.
CutoffStr ==
    <<"9", "2", "2", "3", "3", "7", "2", "0", "3", "6",
      "8", "5", "4", "7", "7", "5", "8", "0", "8">>
CutoffPlusOneStr == SubSeq(CutoffStr, 1, 18) \o <<"9">>
TwentyNines == [i \in 1 .. 20 |-> "9"]

StringsUpTo(n) == UNION {[1 .. k -> PathChars] : k \in 0 .. n}

ParsePrefixes ==
    {PrefixSome, PrefixSomeSlash, PrefixSlash, SomePathSlash, PrefixPath,
     PrefixHash, <<>>}

ParsePaths ==
    {SomePath, SomePathSlash, Path345}
      \cup {p \o s : p \in {PrefixHash, PrefixSlash, <<>>},
                     s \in StringsUpTo(MaxLen)}
      \cup {PrefixHash \o s : s \in {CutoffStr, <<"-">> \o CutoffPlusOneStr,
                                     <<"+">> \o CutoffStr, TwentyNines,
                                     TwentyNines \o <<"x">>,
                                     <<"-">> \o TwentyNines}}

\* strings.HasPrefix and strings.TrimPrefix.
HasPrefix(s, prefix) ==
    /\ Len(s) >= Len(prefix)
    /\ SubSeq(s, 1, Len(prefix)) = prefix

TrimPrefixKeepsSlash(s, prefix) ==
    IF HasPrefix(s, prefix) /\ Len(prefix) > 0
      THEN SubSeq(s, Len(prefix), Len(s))
      ELSE s

TrimPrefix(s, prefix) ==
    IF HasPrefix(s, prefix) THEN SubSeq(s, Len(prefix) + 1, Len(s)) ELSE s

\* A sequence of decimal digits without its leading zeros.
RECURSIVE StripZeros(_)
StripZeros(ds) ==
    IF ds # <<>> /\ Head(ds) = 0 THEN StripZeros(Tail(ds)) ELSE ds

\* a > b for two sequences of digits without leading zeros.
RECURSIVE DigitsGreater(_, _)
DigitsGreater(a, b) ==
    IF Len(a) # Len(b) THEN Len(a) > Len(b)
    ELSE IF a = <<>> THEN FALSE
    ELSE IF Head(a) # Head(b) THEN Head(a) > Head(b)
    ELSE DigitsGreater(Tail(a), Tail(b))

\* The value of a sequence of digits: n = n*10 + d from the left.
RECURSIVE DigitsValue(_, _)
DigitsValue(ds, n) ==
    IF ds = <<>> THEN n ELSE DigitsValue(Tail(ds), n * 10 + Head(ds))

(***************************************************************************)
(* strconv.ParseUint(s, 10, 64): the characters are read from the left;    *)
(* the first character that is not a digit is a syntax error, the first    *)
(* digit that takes the value past math.MaxUint64 a range error.  The      *)
(* value read so far is kept as its digits, acc.                           *)
(***************************************************************************)
RECURSIVE ParseUintFrom(_, _)
ParseUintFrom(s, acc) ==
    IF s = <<>> THEN [digits |-> acc, err |-> "nil"]
    ELSE IF Head(s) \notin Digits THEN [digits |-> <<>>, err |-> "syntax"]
    ELSE LET next == StripZeros(Append(acc, DigitVal[Head(s)]))
         IN  IF DigitsGreater(next, MaxUint64Digits)
               THEN [digits |-> MaxUint64Digits, err |-> "range"]
               ELSE ParseUintFrom(Tail(s), next)

ParseUint(s) ==
    IF s = <<>> THEN [digits |-> <<>>, err |-> "syntax"]
    ELSE ParseUintFrom(s, <<>>)

(***************************************************************************)
(* strconv.ParseInt(s, 10, 64): an optional sign, then ParseUint; a        *)
(* magnitude of 1 << 63 or more (more than 1 << 63 after "-") is a range   *)
(* error.  The value returned with a syntax error is 0; with a range error *)
(* it is the nearest int64, 1<<63 - 1 or -1<<63, given here by name.       *)
(***************************************************************************)
ParseInt(s) ==
    IF s = <<>> THEN [n |-> 0, err |-> "syntax"]
    ELSE LET neg == Head(s) = "-"
             s1 == IF Head(s) \in {"+", "-"} THEN Tail(s) ELSE s
             un == ParseUint(s1)
         IN  CASE un.err = "syntax" -> [n |-> 0, err |-> "syntax"]
               [] un.err = "range" ->
                    [n |-> IF neg THEN "MinInt64" ELSE "MaxInt64",
                     err |-> "range"]
               [] ~neg /\ ~DigitsGreater(CutoffDigits, un.digits) ->
                    [n |-> "MaxInt64", err |-> "range"]
               [] neg /\ DigitsGreater(un.digits, CutoffDigits) ->
                    [n |-> "MinInt64", err |-> "range"]
               [] OTHER ->
                    [n |-> IF neg THEN 0 - DigitsValue(un.digits, 0)
                                  ELSE DigitsValue(un.digits, 0),
                     err |-> "nil"]

parsePathParamInt(path, prefix) == ParseInt(TrimPrefix(path, prefix))

\* A call of parsePathParamInt about to be made: its arguments.
ParseInit ==
    /\ NewHasher
    /\ NoServer
    /\ input \in ParsePaths \X ParsePrefixes
    /\ output = <<>>

\* The call returns.
ParseCall ==
    /\ output = <<>>
    /\ output' = parsePathParamInt(input[1], input[2])
    /\ ret' = NoRes
    /\ resp' = NoResp
    /\ UNCHANGED <<variant, asyncId, wg, hashes, stats, hashPutChan,
                   hashRequestChan, statUpdateChan, loop, units, clients,
                   counted, countedTime, inserted, retrieved, drained,
                   listener, runPc, shutdownChan, reqs, handled, input>>

ParseNext == ParseCall

ParseSpec == ParseInit /\ [][ParseNext]_vars

(***************************************************************************)
(* hasher.Compute called on its own (compute_test.go): input is the        *)
(* sequence of the arguments of the calls made, output the sequence of the *)
(* strings returned.  Compute has no receiver and uses only its locals.    *)
(***************************************************************************)

\* The number of calls made.
MaxCalls == 4

ComputeCall(in) ==
    /\ Len(input) < MaxCalls
    /\ input' = Append(input, in)
    /\ output' = Append(output, Compute(in))
    /\ ret' = NoRes
    /\ resp' = NoResp
    /\ UNCHANGED <<variant, asyncId, wg, hashes, stats, hashPutChan,
                   hashRequestChan, statUpdateChan, loop, units, clients,
                   counted, countedTime, inserted, retrieved, drained,
                   listener, runPc, shutdownChan, reqs, handled>>

ComputeNext == \E in \in ComputeInputs : ComputeCall(in)

ComputeSpec == Init /\ [][ComputeNext]_vars

(***************************************************************************)
(* Properties.                                                             *)
(***************************************************************************)
\* The unit of the Compute call that was given id, if any.
UnitsOf(id) == {u \in UnitIds : units[u].id = id}

\* C1: consume-once retrieval.  A GetAndRemoveHash(id) call returns the hash
\* without error exactly when the hash of id has been put into the map and no
\* earlier call has returned it: of all the calls on an id one succeeds, and
\* every call before the result is published or after it is consumed returns
\* the "id not found" error.
C1_ConsumeOnce ==
    [][ret'.op = "get" =>
         (ret'.ok <=> (inserted[ret'.id] >= 1 /\ retrieved[ret'.id] = 0))]_vars

\* C1 witness: a call on an id returned "id not found" after another call had
\* consumed that id's hash.
C1_Witness == ret.op = "get" /\ ~ret.ok /\ retrieved[ret.id] = 1

\* C2: GetAndRemoveHash(id) returns the error as long as the background unit
\* of id has not finished computing its hash: a call that returns a hash for
\* id does so when the unit of id exists and is past its sleep and its hash
\* computation.
C2_NotBeforeComputed ==
    (ret.op = "get" /\ ret.ok) =>
        /\ UnitsOf(ret.id) # {}
        /\ \A u \in UnitsOf(ret.id) : units[u].pc # "sleep"

\* C2 witness: a call on the id of a unit that was still in its sleep has
\* returned the error.
C2_Witness ==
    /\ ret.op = "get" /\ ~ret.ok
    /\ \E u \in UnitsOf(ret.id) : units[u].pc = "sleep"

\* C3: the hash GetAndRemoveHash(id) returns is Compute(p) for the password p
\* of the Compute call that returned id, and every entry of the map is the
\* hash of the password of the job it is stored under.
C3_HashOfOwnPassword ==
    /\ (ret.op = "get" /\ ret.ok) =>
          /\ UnitsOf(ret.id) # {}
          /\ \A u \in UnitsOf(ret.id) : ret.hash = Compute(units[u].password)
    /\ \A id \in DOMAIN hashes :
          /\ UnitsOf(id) # {}
          /\ \A u \in UnitsOf(id) : hashes[id] = Compute(units[u].password)

\* C3 witness: two jobs with different passwords were submitted, the job that
\* took the second id first, and a call has returned the hash of one of them.
C3_Witness ==
    /\ ret.op = "get" /\ ret.ok
    /\ Len(units) = 2
    /\ units[1].id = 2
    /\ units[1].password # units[2].password

\* C5: the ids Compute hands out are pairwise distinct and are exactly
\* 1 .. N for the N calls made so far, and a Compute call that starts after
\* another has returned gets a larger id than that call did.
C5_UniqueIdsFromOne ==
    [][/\ {clients'[c].arg : c \in {x \in Clients : clients'[x].pc = "c_add"}}
            \cup {units'[u].id : u \in 1 .. Len(units')}
          = 1 .. ComputeCalls'
       /\ \A u, v \in 1 .. Len(units') : u # v => units'[u].id # units'[v].id
       /\ \A c, d \in Clients :
            (c # d /\ clients'[c].pc = "c_add" /\ clients'[d].pc = "c_add")
               => clients'[c].arg # clients'[d].arg
       /\ \A c \in Clients :
            (clients[c].pc = "idle" /\ clients'[c].pc = "c_add")
               => \A u \in UnitIds : units[u].id < clients'[c].arg]_vars

\* C5 witness: two Compute calls ran concurrently and the one that took id 2
\* returned first.
C5_Witness == Len(units) = 2 /\ units[1].id = 2 /\ units[2].id = 1

\* C6: Drain returns only when every unit that was outstanding when Drain was
\* called has passed wg.Done().
C6_DrainWaitsForUnits ==
    ret.op = "drain" => \A u \in ret.seen : units[u].pc = "done"

\* C6 witness: a Drain call that was made while units were outstanding has
\* returned.
C6_Witness == ret.op = "drain" /\ Cardinality(ret.seen) = 2

\* m is n with entries removed.
SubMap(m, n) == DOMAIN m \subseteq DOMAIN n /\ \A i \in DOMAIN m : m[i] = n[i]

\* C7: once Drain has returned, with no Compute call in progress or made
\* since, no step changes stats, and the map changes only by losing entries.
C7_QuietAfterDrain ==
    [][drained => (stats' = stats /\ SubMap(hashes', hashes))]_vars

\* C7 witness: after Drain returned, with jobs submitted before it, a
\* GetAndRemoveHash call took a hash out of the map.
C7_Witness == drained /\ Len(units) = 2 /\ ret.op = "get" /\ ret.ok

\* The ids whose hash has been published: it is in the map, or was and has
\* been returned by GetAndRemoveHash.
Published(id) == id \in DOMAIN hashes \/ retrieved[id] >= 1

\* C8 as stated: a job's duration is counted in stats exactly when its hash
\* has been published; the two are one update.
C8_SingleUpdate ==
    \A u \in UnitIds : (u \in counted) <=> Published(units[u].id)

\* C8 as amended: in AsyncHasherMutex the duration of a job is counted before
\* its hash is published: no hash is in the map, or has been returned, of a
\* job whose duration stats does not count.
C8_MutexCountedBeforePublished ==
    variant = "mutex" =>
        \A u \in UnitIds : Published(units[u].id) => u \in counted

\* C8 witness: in AsyncHasherMutex the hash of one job is in the map while
\* another job is between its two publications.
C8_Witness ==
    /\ variant = "mutex"
    /\ \E u, v \in UnitIds :
          units[u].id \in DOMAIN hashes /\ units[v].pc = "put"

\* C9: every value Stats returns is a consistent snapshot: Total is the
\* number of jobs whose duration has been applied, totalTime the sum of
\* those durations, and Avg * Total * 1000000 = totalTime (Avg zero when
\* Total is zero).
C9_ConsistentSnapshot ==
    ret.op = "stats" =>
        /\ ret.snap.Total = Cardinality(counted)
        /\ ret.snap.totalTime = countedTime
        /\ ret.snap.Avg[2] > 0
        /\ ret.snap.Avg[1] * ret.snap.Total * 1000000 = ret.snap.Avg[2] * countedTime
        /\ ret.snap.Total = 0 => ret.snap.Avg = <<0, 1>>

\* C9 witness: Stats returned a snapshot of one counted job while another
\* job was about to publish its duration.
C9_Witness ==
    /\ ret.op = "stats"
    /\ ret.snap.Total = 1
    /\ \E u \in UnitIds : units[u].pc = "stat"

\* C10 as stated: when the units of all M Compute calls have passed
\* wg.Done(), Stats returns Total = M.
C10_TotalIsFinishedJobs ==
    (ret.op = "stats" /\ Outstanding = {} /\ ComputeCalls = Len(units))
        => ret.snap.Total = Len(units)

(***************************************************************************)
(* The hasher when neither Drain nor Stats is called, under fair           *)
(* scheduling: a call in progress and a background goroutine take their    *)
(* next step when they can (a blocked channel send is served when the      *)
(* buffer has room again and again: channels queue their senders), the     *)
(* event loop's select takes every case that is ready (it chooses among    *)
(* the ready cases at random), and the callers keep polling every id.      *)
(* The measured duration takes one value here: it is only ever added to    *)
(* the statistics and enables or disables no step.                         *)
(***************************************************************************)
NextNoDrain ==
    \/ \E c \in Clients, p \in Passwords : ComputeStart(c, p)
    \/ \E c \in Clients : ComputeSpawn(c)
    \/ \E u \in UnitIds : UnitCompute(u)
    \/ \E u \in UnitIds, d \in {200000} : UnitStatsUpdate(u, d)
    \/ \E u \in UnitIds : UnitHashPut(u)
    \/ \E u \in UnitIds, d \in {200000} : UnitSendStat(u, d)
    \/ \E u \in UnitIds : UnitSendPut(u)
    \/ \E u \in UnitIds : UnitDone(u)
    \/ \E c \in Clients, id \in GetIds : GetCall(c, id)
    \/ \E c \in Clients : GetFinish(c)
    \/ \E c \in Clients, id \in GetIds : GetSend(c, id)
    \/ LoopStart
    \/ LoopPut
    \/ LoopRequest
    \/ LoopStatUpdate

FairUnits ==
    \A u \in 1 .. MaxJobs :
        /\ WF_vars(u \in UnitIds /\ UnitCompute(u))
        /\ WF_vars(u \in UnitIds /\ UnitStatsUpdate(u, 200000))
        /\ WF_vars(u \in UnitIds /\ UnitHashPut(u))
        /\ SF_vars(u \in UnitIds /\ UnitSendStat(u, 200000))
        /\ SF_vars(u \in UnitIds /\ UnitSendPut(u))
        /\ WF_vars(u \in UnitIds /\ UnitDone(u))

FairLoop ==
    /\ WF_vars(LoopStart)
    /\ WF_vars(LoopPut)
    /\ WF_vars(LoopRequest)
    /\ WF_vars(LoopStatUpdate)

FairCalls ==
    \A c \in Clients :
        /\ WF_vars(ComputeSpawn(c))
        /\ WF_vars(GetFinish(c))

Polling ==
    \A id \in GetIds : SF_vars(\E c \in Clients : GetCall(c, id) \/ GetSend(c, id))

LiveSpec ==
    Init /\ [][NextNoDrain]_vars /\ FairUnits /\ FairLoop /\ FairCalls /\ Polling

\* C4: polling liveness.  When Drain is never called and scheduling is fair,
\* for every id Compute has returned, callers that keep calling
\* GetAndRemoveHash(id) eventually get the hash.
C4_PollingSucceeds ==
    \A id \in GetIds : (UnitsOf(id) # {}) ~> (retrieved[id] >= 1)

\* C4 witness: a GetAndRemoveHash call on an id Compute had returned has
\* just returned the hash (ret is the successful return, the first for
\* that id).
C4_Witness == ret.op = "get" /\ ret.ok /\ retrieved[ret.id] = 1

\* C11: Compute does not block.  A Compute call that has taken its id can
\* always take its remaining step (wg.Add, go, return), whatever the other
\* goroutines, the channel buffers and the event loop are doing; and when it
\* returns, the goroutine it launched has not taken a step: Compute waited
\* for none of them.
C11_ComputeNonBlocking ==
    /\ \A c \in Clients : clients[c].pc = "c_add" => ENABLED ComputeSpawn(c)
    /\ ret.op = "compute" =>
          \E u \in UnitsOf(ret.id) : u = Len(units) /\ units[u].pc = "sleep"

\* C11 witness: Compute returns in the channel implementation while the
\* buffer of hashPutChan is full and the other goroutine is blocked.
C11_Witness ==
    /\ ret.op = "compute"
    /\ variant = "channel"
    /\ Len(statUpdateChan) = ChanCap
    /\ Len(hashPutChan) = ChanCap
    /\ Len(units) = 2

(***************************************************************************)
(* AsyncHasherChannel with callers of GetAndRemoveHash, Stats and Drain,   *)
(* under fair scheduling: the event loop takes each of its steps and each  *)
(* case of its select that stays ready, and a Drain whose wait is over     *)
(* returns.                                                                *)
(***************************************************************************)
InitChannel == Init /\ variant = "channel"

NextChannelCalls ==
    \/ \E c \in Clients, id \in GetIds : GetSend(c, id)
    \/ \E c \in Clients : StatsCall(c)
    \/ \E c \in Clients : DrainCall(c)
    \/ \E c \in Clients : DrainReturn(c)
    \/ LoopStart
    \/ LoopRequest
    \/ \E c \in Clients : LoopStats(c)
    \/ \E c \in Clients : LoopShutdown(c)
    \/ LoopDone

FairChannelCalls ==
    /\ WF_vars(LoopStart)
    /\ WF_vars(LoopRequest)
    /\ WF_vars(LoopDone)
    /\ \A c \in Clients :
          /\ WF_vars(LoopStats(c))
          /\ WF_vars(LoopShutdown(c))
          /\ WF_vars(DrainReturn(c))

ChannelCallsSpec == InitChannel /\ [][NextChannelCalls]_vars /\ FairChannelCalls

\* C12: in AsyncHasherChannel every GetAndRemoveHash call and every Stats
\* call eventually returns to its caller under fair scheduling, whenever it
\* is made: before, during or after a Drain.
C12_CallsReturn ==
    \A c \in Clients : (clients[c].pc \in {"g_wait", "s_wait"}) ~> (clients[c].pc = "idle")

\* C13: a GetAndRemoveHash call that returns the "id not found" error has
\* no side effect: the step on which it returns leaves the result map (and
\* so every other id's entry), the Stats value and the id counter as they
\* were.
C13_NotFoundNoEffect ==
    [][(ret'.op = "get" /\ ~ret'.ok) =>
          (hashes' = hashes /\ stats' = stats /\ asyncId' = asyncId)]_vars

\* C13 witness: a call returned the error while the map holds the entry of
\* another id and a duration has been counted.
C13_Witness ==
    /\ ret.op = "get"
    /\ ~ret.ok
    /\ DOMAIN hashes # {}
    /\ ret.id \notin DOMAIN hashes
    /\ stats.Total >= 1

DrainInvoked == {"d_send", "d_wait", "returned"}

\* C15: the shutdown gate.  On every path by which Run reaches
\* s.hasher.Drain(), no handler calls hasher.Compute at or after the moment
\* Drain is invoked: a step on which hashPOSTHandler enters Compute is taken
\* only while Run has not yet invoked Drain.
C15_NoComputeAfterDrain ==
    [][(\E h \in Conns : reqs[h].pc = "recv" /\ reqs'[h].pc = "c_add") =>
          runPc \notin DrainInvoked]_vars

\* Where Run is once it has passed its select and any Shutdown.
PastSelect == {"drain"} \cup DrainInvoked

RunOrder ==
    {<<"select", "shutdown">>, <<"select", "drain">>, <<"shutdown", "drain">>,
     <<"shutdown", "panic">>, <<"drain", "d_send">>, <<"drain", "d_wait">>,
     <<"d_send", "d_wait">>, <<"d_wait", "returned">>}

C18_BadPostRejected ==
    [][\A h \in Conns :
          (reqs[h].pc = "recv" /\ reqs[h].route = "hash" /\ reqs'[h] # reqs[h]) =>
              IF reqs[h].path = "/hash" /\ reqs[h].password # ""
              THEN resp'.status # 400 /\ resp'.status # 404
              ELSE /\ resp'.conn = h
                   /\ resp'.status = (IF reqs[h].path # "/hash" THEN 404 ELSE 400)
                   /\ reqs'[h].pc = "none"
                   /\ asyncId' = asyncId
                   /\ wg' = wg
                   /\ units' = units
                   /\ hashes' = hashes
                   /\ stats' = stats]_vars

\* C18 witness: a request with an empty password has just been rejected
\* with 400 while the hasher holds a job submitted earlier.
C18_Witness == resp.status = 400 /\ Len(units) = 1 /\ asyncId = 1

(***************************************************************************)
(* parsePathParamInt.                                                      *)
(***************************************************************************)

\* What is left of path once a leading prefix is removed.
Remainder(path, prefix) ==
    IF Len(path) >= Len(prefix)
         /\ \A i \in 1 .. Len(prefix) : path[i] = prefix[i]
      THEN [i \in 1 .. Len(path) - Len(prefix) |-> path[Len(prefix) + i]]
      ELSE path

\* s without its sign.
Unsigned(s) == IF s # <<>> /\ s[1] \in {"+", "-"} THEN Tail(s) ELSE s

\* s is a base-10 integer literal: an optional sign and one or more digits.
IsLiteral(s) ==
    /\ Unsigned(s) # <<>>
    /\ \A i \in 1 .. Len(Unsigned(s)) : Unsigned(s)[i] \in Digits

\* The literal's number of digits after its leading zeros.
Significant(s) ==
    LET u == Unsigned(s)
        nz == {i \in 1 .. Len(u) : u[i] # "0"}
    IN  IF nz = {} THEN 0
        ELSE Len(u) + 1 - CHOOSE i \in nz : \A j \in nz : i <= j

RECURSIVE Pow10(_)
Pow10(k) == IF k = 0 THEN 1 ELSE 10 * Pow10(k - 1)

RECURSIVE PlaceSum(_, _)
PlaceSum(u, i) ==
    IF i > Len(u) THEN 0
    ELSE DigitVal[u[i]] * Pow10(Len(u) - i) + PlaceSum(u, i + 1)

\* The integer a literal of at most nine significant digits denotes: the
\* sum of its digits times the powers of ten of their places.
LiteralValue(s) ==
    LET u == Unsigned(s)
        v == PlaceSum(SubSeq(u, Len(u) - Significant(s) + 1, Len(u)), 1)
    IN  IF s[1] = "-" THEN 0 - v ELSE v

\* a <= b for two sequences of digits of the same length.
DigitsAtMost(a, b) ==
    \/ a = b
    \/ \E i \in 1 .. Len(a) : /\ a[i] < b[i]
                             /\ \A j \in 1 .. i - 1 : a[j] = b[j]

\* The literal denotes an integer from -2^63 to 2^63 - 1.
FitsInt64(s) ==
    LET u == Unsigned(s)
        k == Significant(s)
        sig == [i \in 1 .. k |-> DigitVal[u[Len(u) - k + i]]]
        limit == IF s[1] = "-" THEN CutoffDigits
                 ELSE [CutoffDigits EXCEPT ![19] = 7]
    IN  k < 19 \/ (k = 19 /\ DigitsAtMost(sig, limit))

\* C19: parsePathParamInt(path, prefix) returns n and no error exactly when
\* path without its leading prefix is a base-10 integer literal denoting the
\* int64 n; it returns an error when the remainder is empty or has a "/" in
\* it, as for ("/some/path", "/some"), ("/some/path", "/some/"),
\* ("/some/path/", "/") and ("/some/path/", "/some/path/"); and
\* ("/path/345", "/path/") gives 345.
C19_ParsePathParamInt ==
    output # <<>> =>
      LET rem == Remainder(input[1], input[2])
      IN  /\ output.err = "nil" <=> (IsLiteral(rem) /\ FitsInt64(rem))
          /\ output.err = "nil" => output.n = LiteralValue(rem)
          /\ (rem = <<>> \/ \E i \in 1 .. Len(rem) : rem[i] = "/")
               => output.err # "nil"
          /\ input \in {<<SomePath, PrefixSome>>, <<SomePath, PrefixSomeSlash>>,
                        <<SomePathSlash, PrefixSlash>>,
                        <<SomePathSlash, SomePathSlash>>}
               => output.err # "nil"
          /\ input = <<Path345, PrefixPath>>
               => output = [n |-> 345, err |-> "nil"]

\* parsePathParamInt("/path/345", "/path/") has returned 345.
C19_Witness ==
    /\ input = <<Path345, PrefixPath>>
    /\ TrimPrefix(input[1], input[2]) = <<"3", "4", "5">>
    /\ output = [n |-> 345, err |-> "nil"]

(***************************************************************************)
(* hasher.Compute.                                                         *)
(***************************************************************************)

\* The string TestCompute expects for "angryMonkey".
AngryMonkeyHash ==
    "ZEHhWB65gUlzdVwtDQArEyx+KVLzp/aTaRaPlBzYRIFj6vjFdqEb0Q5B8zVKCZ0vKbZPZklJz0Fd7su2A+gf7Q=="

\* The length of the padded base64 encoding of n bytes.
EncodedLen(n) == ((n + 2) \div 3) * 4

C21_CompletedAcrossDrain ==
    ret.op = "drain" => \A u \in ret.seen : Published(units[u].id)

(***************************************************************************)
(* Drain under fair scheduling: Compute and Drain calls made one after the *)
(* other, each when the call before it has returned, the goroutines of the *)
(* Compute calls, and the event loop.  Every goroutine that can run does   *)
(* run; a send on a buffered channel is made if the buffer has room again  *)
(* and again.                                                              *)
(***************************************************************************)
\* No call is in progress.
NoCallInProgress == \A c \in Clients : clients[c].pc = "idle"

NextDrain ==
    \/ \E c \in Clients : NoCallInProgress /\ ComputeStart(c, "angryMonkey")
    \/ \E c \in Clients : ComputeSpawn(c)
    \/ \E u \in UnitIds : UnitCompute(u)
    \/ \E u \in UnitIds : UnitStatsUpdate(u, 200000)
    \/ \E u \in UnitIds : UnitHashPut(u)
    \/ \E u \in UnitIds : UnitSendStat(u, 200000)
    \/ \E u \in UnitIds : UnitSendPut(u)
    \/ \E u \in UnitIds : UnitDone(u)
    \/ \E c \in Clients : NoCallInProgress /\ DrainCall(c)
    \/ \E c \in Clients : DrainReturn(c)
    \/ LoopStart
    \/ LoopPut
    \/ LoopStatUpdate
    \/ \E c \in Clients : LoopShutdown(c)
    \/ LoopDone

FairDrain ==
    /\ WF_vars(LoopStart)
    /\ WF_vars(LoopPut)
    /\ WF_vars(LoopStatUpdate)
    /\ WF_vars(LoopDone)
    /\ \A c \in Clients :
          /\ WF_vars(ComputeSpawn(c))
          /\ WF_vars(LoopShutdown(c))
          /\ WF_vars(DrainReturn(c))

DrainSpec == Init /\ [][NextDrain]_vars /\ FairUnits /\ FairDrain

\* C22 as stated: in AsyncHasherChannel, under fair scheduling, a Drain call
\* whose shutdown message the event loop has taken returns, however many
\* units are outstanding: wg.Wait() does return.
C22_ChannelDrainReturns ==
    \A c \in Clients :
        (variant = "channel" /\ clients[c].pc = "d_wait") ~> (clients[c].pc = "idle")

\* C26 as stated: in both hashers a Drain call made after an earlier Drain
\* call has returned, with no Compute call since, returns as well.
C26_RepeatedDrainReturns ==
    \A c \in Clients :
        (drained /\ clients[c].pc \in {"d_send", "d_wait"}) ~> (clients[c].pc = "idle")

(***************************************************************************)
(* The life of a map entry.                                                *)
(***************************************************************************)

\* C23: in both hashers the entry of an id is written into the map at most
\* once, with the hash and under the id of the goroutine of the Compute call
\* that returned that id, and an id that GetAndRemoveHash has taken out of
\* the map is never in the map again: a job goes from pending to completed
\* to consumed and never back.
C23_WrittenOnceByOwner ==
    /\ [](\A id \in Ids :
             /\ inserted[id] <= 1
             /\ retrieved[id] >= 1 => (inserted[id] = 1 /\ id \notin DOMAIN hashes))
    /\ [][\A id \in Ids :
             /\ inserted'[id] # inserted[id] =>
                  /\ id \notin DOMAIN hashes /\ id \in DOMAIN hashes'
                  /\ retrieved[id] = 0
                  /\ \E u \in UnitIds :
                        /\ units[u].id = id
                        /\ hashes'[id] = units[u].hash
                        /\ IF variant = "mutex"
                             THEN units[u].pc = "put" /\ units'[u].pc = "fin"
                             ELSE units[u].pc \in {"fin", "done"}
             /\ (id \in DOMAIN hashes /\ id \in DOMAIN hashes')
                  => hashes'[id] = hashes[id]
             /\ (id \notin DOMAIN hashes /\ id \in DOMAIN hashes')
                  => inserted'[id] = inserted[id] + 1]_vars
    /\ [][Len(hashPutChan') > Len(hashPutChan) =>
             \E u \in UnitIds :
                /\ units[u].pc = "put" /\ units'[u].pc = "fin"
                /\ hashPutChan' = Append(hashPutChan,
                                         [id |-> units[u].id, hash |-> units[u].hash])]_vars

\* C23 witness: of two jobs, the one with id 1 has been written and consumed
\* and a later GetAndRemoveHash(1) has failed, while the entry of id 2,
\* written once, is in the map.
C23_Witness ==
    /\ Len(units) = 2
    /\ inserted[1] = 1 /\ retrieved[1] = 1 /\ 1 \notin DOMAIN hashes
    /\ inserted[2] = 1 /\ 2 \in DOMAIN hashes
    /\ ret.op = "get" /\ ret.id = 1 /\ ~ret.ok

\* The ids whose hash has been inserted into the map at some time.
EverInserted == {id \in Ids : inserted[id] >= 1}

\* The ids whose hash a GetAndRemoveHash call has returned.
EverRetrieved == {id \in Ids : retrieved[id] >= 1}

\* C25: in AsyncHasherMutex a job's duration is counted before its hash can
\* be retrieved: in every state Stats.Total is at least the number of ids
\* whose hash has ever been inserted into the map, and every value Stats
\* returns has Total at least the number of distinct hashes retrieved so far.
C25_MutexTotalCoversInserted ==
    variant = "mutex" =>
        /\ stats.Total >= Cardinality(EverInserted)
        /\ ret.op = "stats" => ret.snap.Total >= Cardinality(EverRetrieved)

\* C25 witness: in AsyncHasherMutex, after the hashes of two jobs were
\* retrieved, Stats has returned Total = 2.
C25_Witness ==
    /\ variant = "mutex"
    /\ ret.op = "stats"
    /\ Cardinality(EverRetrieved) = 2
    /\ ret.snap.Total = 2

(***************************************************************************)
(* Requests whose method has no handler.                                   *)
(***************************************************************************)

\* The hasher and the server's own state.
ServerState ==
    <<asyncId, wg, hashes, stats, hashPutChan, hashRequestChan, statUpdateChan,
      loop, units, listener, runPc, shutdownChan, handled>>

\* C24 as stated: a request on a registered route whose method has no
\* handler (POST /stats, GET /shutdown, any method other than GET and POST)
\* is answered by mux with the 405 error and nothing else happens: mux calls
\* no function, a nil handler in particular, and the request changes nothing
\* of the server or the hasher.
C24_UnhandledMethodRejected ==
    [][\A h \in Conns :
          (reqs[h].pc = "mux" /\ reqs'[h] # reqs[h]) =>
              /\ resp' = [NoResp EXCEPT !.conn = h, !.status = 405]
              /\ reqs'[h] = NoReq
              /\ ServerState' = ServerState]_vars

====
